---- MODULE Spec2Model ----
(***************************************************************************)
(* Model of system/swap.py: the Swap class (observation in __init__, the   *)
(* planner in run, the executor methods) and main, run against a host made *)
(* of the swap activation of the managed path, its backing file and the    *)
(* text of /etc/fstab.  Every module.run_command call is one step whose    *)
(* exit code is chosen by the host.                                        *)
(***************************************************************************)
EXTENDS Integers, Sequences, FiniteSets, TLC

\* ---------------------------------------------------------------- bounds
\* largest size (MB) a task asks for, and largest whole-MB size of a file
\* found on the host
MaxSize == 2
\* largest number of lines of /etc/fstab at the start
MaxLines == 2

\* ------------------------------------------------------------- constants
\* Swap.block_size
block_size == 1024 * 1024

\* module.params['path'] of the managed swap file
path == <<"/", "s">>

\* ------------------------------------------------------- text of /etc/fstab
\* the line make_persistent writes for path p: '%s\tnone\tswap\tsw\t0\t0\n'
FstabRecord(p) == p \o <<"\t", "none", "\t", "swap", "\t", "sw", "\t", "0", "\t", "0", "\n">>

\* line.startswith(p)
StartsWith(line, p) == Len(line) >= Len(p) /\ SubSeq(line, 1, Len(p)) = p

\* p in line
Contains(line, p) ==
    \E i \in 1..(Len(line) - Len(p) + 1) : SubSeq(line, i, i + Len(p) - 1) = p

\* file.readlines(): the text cut after every "\n"; a last line without
\* "\n" is returned as it is
RECURSIVE SplitLines(_, _)
SplitLines(text, cur) ==
    IF text = <<>>
    THEN IF cur = <<>> THEN <<>> ELSE <<cur>>
    ELSE IF Head(text) = "\n"
         THEN <<Append(cur, "\n")>> \o SplitLines(Tail(text), <<>>)
         ELSE SplitLines(Tail(text), Append(cur, Head(text)))

readlines(text) == SplitLines(text, <<>>)

\* file.writelines(lines) on a file opened with 'w': the lines one after
\* the other, nothing added between them
RECURSIVE writelines(_)
writelines(ls) == IF ls = <<>> THEN <<>> ELSE Head(ls) \o writelines(Tail(ls))

\* KeepLines that drops the lines starting with p only
KeepLines_Prefix(ls, p) ==
    SelectSeq(ls, LAMBDA l : ~StartsWith(l, p))

\* KeepLines that writes lines back instead of new_lines
KeepLines_All(ls, p) == ls

\* new_lines of make_temporary: the lines that do not contain p, in order
RECURSIVE KeepLines(_, _)
KeepLines(ls, p) ==
    IF ls = <<>> THEN <<>>
    ELSE IF ~Contains(Head(ls), p)
         THEN <<Head(ls)>> \o KeepLines(Tail(ls), p)
         ELSE KeepLines(Tail(ls), p)

\* ------------------------------------------------------------ host at start
\* lines /etc/fstab may hold at the start: the record of the managed path,
\* the record of another path that starts with it, a line that mentions it
\* after the first column, and a line that has nothing to do with it
InitLines ==
    { FstabRecord(path),
      FstabRecord(path \o <<"1">>),
      <<"#", "/", "s", "\n">>,
      <<"/", "d", "\t", "/", "\n">> }

\* no line twice
NoRepeat(ls) == \A i, j \in 1..Len(ls) : i # j => ls[i] # ls[j]

\* the sequences of at most n different lines
RECURSIVE LineSeqs(_)
LineSeqs(n) ==
    IF n = 0 THEN { <<>> }
    ELSE LET shorter == LineSeqs(n - 1)
             longer == { Append(ls, l) : ls \in { s \in shorter : Len(s) = n - 1 },
                                         l \in InitLines }
         IN  shorter \cup { ls \in longer : NoRepeat(ls) }

\* the texts of /etc/fstab at the start; the last line may lack its "\n"
InitFstabs ==
    { writelines(ls) : ls \in LineSeqs(MaxLines) } \cup
    { SubSeq(writelines(ls), 1, Len(writelines(ls)) - 1) : ls \in LineSeqs(MaxLines) \ { <<>> } }

\* byte sizes of the file at path at the start: whole MBs and one size
\* between two of them; -1: no such file
InitFiles ==
    { -1 } \cup { k * block_size : k \in 1..MaxSize } \cup { block_size + block_size \div 2 }

\* module.params as Swap.__init__ reads them: supplied says that size was
\* given, and a given size is any integer, 0 included; with state=absent
\* size is not read and persistent is left at its default
DesiredStates ==
    [ present : { TRUE }, supplied : { TRUE }, size : 0..MaxSize, persistent : BOOLEAN ] \cup
    [ present : { TRUE }, supplied : { FALSE }, size : { -1 }, persistent : { FALSE } ] \cup
    [ present : { FALSE }, supplied : { FALSE }, size : { -1 }, persistent : { FALSE } ]

\* ------------------------------------------------------------------- state
VARIABLES
    active,             \* host: path is listed by swapon -s
    file,               \* host: byte size of the file at path, -1 if none
    fstab,              \* host: text of /etc/fstab
    desired,            \* self.present, self.size, self.persistent
    check_mode,         \* module.check_mode
    actual_present,     \* self.actual_present
    actual_size,        \* self.actual_size
    actual_persistent,  \* self.actual_persistent
    changes,            \* self.changes
    changed,            \* changed of run
    pc,                 \* line of swap.py the invocation is at
    stack,              \* lines to return to, innermost call first
    cmd_create,         \* create_swap: cmd_create
    cmd_create_fallback,\* create_swap: cmd_create_fallback
    lines,              \* make_temporary: lines
    calls,              \* run_command calls and fstab writes of this invocation
    result,             \* "none", "ok" (exit_json) or the failure message
    prev                \* the invocation before this one, when it ended with
                        \* exit_json and asked for the same desired state

host == <<active, file, fstab>>
locals == <<cmd_create, cmd_create_fallback, lines>>
observed == <<actual_present, actual_size, actual_persistent>>
vars == <<active, file, fstab, desired, check_mode, actual_present, actual_size,
          actual_persistent, changes, changed, pc, stack, cmd_create,
          cmd_create_fallback, lines, calls, result, prev>>

\* prev when the invocation before asked for something else, failed, or
\* there was none
NoPrev == [ ok |-> FALSE, check_mode |-> FALSE, changed |-> FALSE ]

\* self.present, self.size, self.persistent before the first invocation
NoDesired == [ present |-> FALSE, supplied |-> FALSE, size |-> -1, persistent |-> FALSE ]

\* ------------------------------------------------------------ observation
\* check_actual_size
check_actual_size == IF file >= 0 THEN file \div block_size ELSE -1

\* check_actual_persistent that looks for the very line make_persistent writes
check_actual_persistent_Exact ==
    \E i \in 1..Len(readlines(fstab)) : readlines(fstab)[i] = FstabRecord(path)

\* check_actual_persistent
check_actual_persistent == \E i \in 1..Len(readlines(fstab)) : StartsWith(readlines(fstab)[i], path)

\* '%s' of a bool
BoolStr(b) == IF b THEN "True" ELSE "False"

\* ------------------------------------------------------------- host commands
Call(c, rc) == [ cmd |-> c, rc |-> rc ]

\* exit codes the host can give to a command: it can always refuse, and it
\* can only report success when the command is able to do its work
ExitCodes(c) ==
    { 1 } \cup
    CASE c = "fallocate" -> IF desired.size > 0 THEN { 0 } ELSE {}
      [] c = "mkswap"  -> IF file > 0 THEN { 0 } ELSE {}
      [] c = "swapon"  -> IF file > 0 /\ ~active THEN { 0 } ELSE {}
      [] c = "swapoff" -> IF active THEN { 0 } ELSE {}
      [] c = "rm"      -> IF file >= 0 THEN { 0 } ELSE {}
      [] OTHER         -> { 0 }

\* size of the file after a successful allocation of n MB: fallocate -l
\* extends the file to the length and never shortens it, dd of=path writes
\* a new file of count blocks
Allocated(c, n) ==
    IF c = "fallocate"
    THEN IF file > n * block_size THEN file ELSE n * block_size
    ELSE n * block_size

\* raise Exception(msg), caught by main: module.fail_json
Raise(msg) ==
    /\ pc' = "done"
    /\ stack' = <<>>
    /\ result' = msg

\* return from a method of Swap to the line after its call
Return ==
    /\ pc' = Head(stack)
    /\ stack' = Tail(stack)

Init ==
    /\ active \in BOOLEAN
    /\ file \in InitFiles
    /\ active => file > 0
    /\ fstab \in InitFstabs
    /\ desired = NoDesired
    /\ check_mode = FALSE
    /\ actual_present = FALSE
    /\ actual_size = -1
    /\ actual_persistent = FALSE
    /\ changes = <<>>
    /\ changed = FALSE
    /\ pc = "idle"
    /\ stack = <<>>
    /\ cmd_create = "None"
    /\ cmd_create_fallback = "None"
    /\ lines = <<>>
    /\ calls = <<>>
    /\ result = "none"
    /\ prev = NoPrev

\* what ends Swap.__init__ when state=present comes without a size: the
\* raise of line 82 when params has no 'size' key, int(None) of line 79
\* when the key is there without a value
SizeErrors == { "Size is required by state is present", "TypeError" }

\* main is started: AnsibleModule(...) and Swap.__init__ up to its
\* observations
Start ==
    /\ pc \in { "idle", "done" }
    /\ \E d \in DesiredStates, cm \in BOOLEAN :
          /\ desired' = d
          /\ check_mode' = cm
          /\ prev' = IF pc = "done" /\ result = "ok" /\ d = desired
                     THEN [ ok |-> TRUE, check_mode |-> check_mode, changed |-> changed ]
                     ELSE NoPrev
          /\ IF d.present /\ ~d.supplied
             THEN /\ pc' = "done"
                  /\ result' \in SizeErrors
             ELSE /\ pc' = "L86"
                  /\ result' = "none"
    /\ stack' = <<>>
    /\ changes' = <<>>
    /\ changed' = FALSE
    /\ calls' = <<>>
    /\ actual_present' = FALSE
    /\ actual_size' = -1
    /\ actual_persistent' = FALSE
    /\ UNCHANGED <<host, locals>>

\* Observe without check_rc: a failed listing reads as an empty one
Observe_NoCheckRc ==
    /\ pc = "L86"
    /\ \E rc \in ExitCodes("swapon -s") :
          /\ calls' = Append(calls, Call("swapon -s", rc))
          /\ actual_present' = (rc = 0 /\ active)
          /\ actual_size' = check_actual_size
          /\ actual_persistent' = check_actual_persistent
          /\ pc' = "L193"
          /\ UNCHANGED <<stack, result>>
    /\ UNCHANGED <<host, desired, check_mode, changes, changed, locals, prev>>

\* Swap.__init__, the three observations
Observe ==
    /\ pc = "L86"
    /\ \E rc \in ExitCodes("swapon -s") :
          /\ calls' = Append(calls, Call("swapon -s", rc))
          /\ IF rc # 0
             THEN /\ Raise("swapon -s failed")
                  /\ UNCHANGED observed
             ELSE /\ actual_present' = active
                  /\ actual_size' = check_actual_size
                  /\ actual_persistent' = check_actual_persistent
                  /\ pc' = "L193"
                  /\ UNCHANGED <<stack, result>>
    /\ UNCHANGED <<host, desired, check_mode, changes, changed, locals, prev>>

\* SizeDiffers that only sees a file that is too large
SizeDiffers_Greater == actual_size > desired.size

\* ------------------------------------------------------------------ planner
\* run: self.actual_size != self.size
SizeDiffers == actual_size # desired.size

\* PersistenceDiffers that ignores what was observed
PersistenceDiffers_Wanted == desired.persistent

\* run: self.actual_persistent != self.persistent
PersistenceDiffers == actual_persistent # desired.persistent

\* PersistAfterCreate without the test of the observed record
PersistAfterCreate_Always == desired.persistent

\* run, after create_swap: self.persistent and not self.actual_persistent
PersistAfterCreate == desired.persistent /\ ~actual_persistent

\* the first lines of run: what was observed and what is asked for
RunHeader ==
    << "actual present: " \o BoolStr(actual_present),
       "actual size: " \o ToString(actual_size),
       "actual persistence: " \o BoolStr(actual_persistent),
       "req present: " \o BoolStr(desired.present) >> \o
    IF desired.present
    THEN << "req size: " \o ToString(desired.size),
            "req persistence: " \o BoolStr(desired.persistent) >>
    ELSE <<>>

\* run, up to its first call
Run ==
    /\ pc = "L193"
    /\ changes' = changes \o RunHeader
    /\ IF desired.present
       THEN IF ~actual_present
            THEN /\ changed' = TRUE
                 /\ pc' = "create_swap"
                 /\ stack' = <<"L210">>
            ELSE IF SizeDiffers
                 THEN /\ changed' = TRUE
                      /\ pc' = "resize_swap"
                      /\ stack' = <<"L219">>
                 ELSE /\ changed' = FALSE
                      /\ pc' = "L219"
                      /\ stack' = <<>>
       ELSE IF actual_present
            THEN /\ changed' = TRUE
                 /\ IF actual_persistent
                    THEN /\ pc' = "make_temporary"
                         /\ stack' = <<"L232">>
                    ELSE /\ pc' = "remove_swap"
                         /\ stack' = <<"L233">>
            ELSE /\ changed' = FALSE
                 /\ pc' = "L233"
                 /\ stack' = <<>>
    /\ UNCHANGED <<host, desired, check_mode, observed, locals, calls, result, prev>>

\* run, after create_swap returned
RunAfterCreate ==
    /\ pc = "L210"
    /\ IF PersistAfterCreate
       THEN /\ pc' = "make_persistent"
            /\ stack' = <<"L233">>
       ELSE /\ pc' = "L233"
            /\ stack' = <<>>
    /\ UNCHANGED <<host, desired, check_mode, observed, changes, changed, locals, calls,
                   result, prev>>

\* RunPersistence that reports a change only when it makes one
RunPersistence_RealOnly ==
    /\ pc = "L219"
    /\ IF PersistenceDiffers
       THEN /\ changed' = (changed \/ ~check_mode)
            /\ pc' = IF desired.persistent THEN "make_persistent" ELSE "make_temporary"
            /\ stack' = <<"L233">>
       ELSE /\ pc' = "L233"
            /\ stack' = <<>>
            /\ UNCHANGED changed
    /\ UNCHANGED <<host, desired, check_mode, observed, changes, locals, calls, result, prev>>

\* run, the persistence of a swap that was active
RunPersistence ==
    /\ pc = "L219"
    /\ IF PersistenceDiffers
       THEN /\ changed' = TRUE
            /\ pc' = IF desired.persistent THEN "make_persistent" ELSE "make_temporary"
            /\ stack' = <<"L233">>
       ELSE /\ pc' = "L233"
            /\ stack' = <<>>
            /\ UNCHANGED changed
    /\ UNCHANGED <<host, desired, check_mode, observed, changes, locals, calls, result, prev>>

\* run, remove_swap after make_temporary returned
RunRemove ==
    /\ pc = "L232"
    /\ pc' = "remove_swap"
    /\ stack' = <<"L233">>
    /\ UNCHANGED <<host, desired, check_mode, observed, changes, changed, locals, calls,
                   result, prev>>

\* run returns, main: module.exit_json
RunReturn ==
    /\ pc = "L233"
    /\ pc' = "done"
    /\ result' = "ok"
    /\ UNCHANGED <<host, desired, check_mode, observed, changes, changed, stack, locals,
                   calls, prev>>

\* ----------------------------------------------------------------- executor
\* create_swap, up to the choice of the allocation command
CreateSwap ==
    /\ pc = "create_swap"
    /\ IF check_mode
       THEN /\ changes' = Append(changes, "create_swap")
            /\ Return
            /\ UNCHANGED <<cmd_create, cmd_create_fallback, calls>>
       ELSE \E rc \in ExitCodes("which fallocate") :
               /\ calls' = Append(calls, Call("which fallocate", rc))
               /\ IF rc = 0
                  THEN /\ changes' = changes \o <<"create_swap", "using fallocate">>
                       /\ cmd_create' = "fallocate"
                       /\ cmd_create_fallback' = "dd"
                  ELSE /\ changes' = changes \o <<"create_swap", "using dd">>
                       /\ cmd_create' = "dd"
                       /\ cmd_create_fallback' = "None"
               /\ pc' = "L133"
               /\ UNCHANGED stack
    /\ UNCHANGED <<host, desired, check_mode, observed, changed, lines, result, prev>>

\* create_swap: run cmd_create
Allocate ==
    /\ pc = "L133"
    /\ \E rc \in ExitCodes(cmd_create) :
          /\ calls' = Append(calls, Call(cmd_create, rc))
          /\ file' = IF rc = 0 THEN Allocated(cmd_create, desired.size) ELSE file
          /\ pc' = IF rc # 0 /\ cmd_create_fallback # "None" THEN "L136" ELSE "L140"
    /\ UNCHANGED <<active, fstab, desired, check_mode, observed, changes, changed, stack,
                   locals, result, prev>>

\* create_swap: run cmd_create_fallback
AllocateFallback ==
    /\ pc = "L136"
    /\ \E rc \in ExitCodes(cmd_create_fallback) :
          /\ calls' = Append(calls, Call(cmd_create_fallback, rc))
          /\ file' = IF rc = 0 THEN Allocated(cmd_create_fallback, desired.size) ELSE file
          /\ IF rc # 0
             THEN Raise("Create swap failed")
             ELSE /\ pc' = "L140"
                  /\ UNCHANGED <<stack, result>>
    /\ UNCHANGED <<active, fstab, desired, check_mode, observed, changes, changed, locals,
                   prev>>

\* Mkswap that does not look at the exit code
Mkswap_NoRaise ==
    /\ pc = "L140"
    /\ \E rc \in ExitCodes("mkswap") :
          /\ calls' = Append(calls, Call("mkswap", rc))
          /\ pc' = "L145"
          /\ UNCHANGED <<stack, result>>
    /\ UNCHANGED <<host, desired, check_mode, observed, changes, changed, locals, prev>>

\* create_swap: mkswap
Mkswap ==
    /\ pc = "L140"
    /\ \E rc \in ExitCodes("mkswap") :
          /\ calls' = Append(calls, Call("mkswap", rc))
          /\ IF rc # 0
             THEN Raise("mkswap failed")
             ELSE /\ pc' = "L145"
                  /\ UNCHANGED <<stack, result>>
    /\ UNCHANGED <<host, desired, check_mode, observed, changes, changed, locals, prev>>

\* Swapon that observes the new swap after it is on
Swapon_Reobserve ==
    /\ pc = "L145"
    /\ \E rc \in ExitCodes("swapon") :
          /\ calls' = Append(calls, Call("swapon", rc))
          /\ active' = IF rc = 0 THEN TRUE ELSE active
          /\ IF rc # 0
             THEN /\ Raise("swapon failed")
                  /\ UNCHANGED observed
             ELSE /\ Return
                  /\ actual_present' = TRUE
                  /\ actual_size' = check_actual_size
                  /\ UNCHANGED <<actual_persistent, result>>
    /\ UNCHANGED <<file, fstab, desired, check_mode, changes, changed, locals, prev>>

\* create_swap: swapon, and return
Swapon ==
    /\ pc = "L145"
    /\ \E rc \in ExitCodes("swapon") :
          /\ calls' = Append(calls, Call("swapon", rc))
          /\ active' = IF rc = 0 THEN TRUE ELSE active
          /\ IF rc # 0
             THEN Raise("swapon failed")
             ELSE /\ Return
                  /\ UNCHANGED result
    /\ UNCHANGED <<file, fstab, desired, check_mode, observed, changes, changed, locals,
                   prev>>

\* remove_swap: swapoff
RemoveSwap ==
    /\ pc = "remove_swap"
    /\ changes' = Append(changes, "remove_swap")
    /\ IF check_mode
       THEN /\ Return
            /\ UNCHANGED <<active, calls, result>>
       ELSE \E rc \in ExitCodes("swapoff") :
               /\ calls' = Append(calls, Call("swapoff", rc))
               /\ active' = IF rc = 0 THEN FALSE ELSE active
               /\ IF rc # 0
                  THEN Raise("swapoff failed")
                  ELSE /\ pc' = "L159"
                       /\ UNCHANGED <<stack, result>>
    /\ UNCHANGED <<file, fstab, desired, check_mode, observed, changed, locals, prev>>

\* Rm that activates the swap again when the file cannot be deleted
Rm_Rollback ==
    /\ pc = "L159"
    /\ \E rc \in ExitCodes("rm") :
          /\ calls' = Append(calls, Call("rm", rc))
          /\ file' = IF rc = 0 THEN -1 ELSE file
          /\ active' = (rc # 0)
          /\ IF rc # 0
             THEN Raise("remove swap file failed")
             ELSE /\ Return
                  /\ UNCHANGED result
    /\ UNCHANGED <<fstab, desired, check_mode, observed, changes, changed, locals, prev>>

\* remove_swap: rm, and return
Rm ==
    /\ pc = "L159"
    /\ \E rc \in ExitCodes("rm") :
          /\ calls' = Append(calls, Call("rm", rc))
          /\ file' = IF rc = 0 THEN -1 ELSE file
          /\ IF rc # 0
             THEN Raise("remove swap file failed")
             ELSE /\ Return
                  /\ UNCHANGED result
    /\ UNCHANGED <<active, fstab, desired, check_mode, observed, changes, changed, locals,
                   prev>>

\* ResizeSwap that allocates over the file in place
ResizeSwap_InPlace ==
    /\ pc = "resize_swap"
    /\ changes' = Append(changes, "resize_swap")
    /\ IF check_mode
       THEN Return
       ELSE /\ pc' = "create_swap"
            /\ UNCHANGED stack
    /\ UNCHANGED <<host, desired, check_mode, observed, changed, locals, calls, result, prev>>

\* resize_swap, up to its call of remove_swap
ResizeSwap ==
    /\ pc = "resize_swap"
    /\ changes' = Append(changes, "resize_swap")
    /\ IF check_mode
       THEN Return
       ELSE /\ pc' = "remove_swap"
            /\ stack' = <<"L169">> \o stack
    /\ UNCHANGED <<host, desired, check_mode, observed, changed, locals, calls, result, prev>>

\* resize_swap: create_swap after remove_swap returned
ResizeCreate ==
    /\ pc = "L169"
    /\ pc' = "create_swap"
    /\ UNCHANGED <<host, desired, check_mode, observed, changes, changed, stack, locals,
                   calls, result, prev>>

\* MakePersistent without the return in check mode
MakePersistent_NoCheckMode ==
    /\ pc = "make_persistent"
    /\ changes' = Append(changes, "make_persistent")
    /\ fstab' = fstab \o FstabRecord(path)
    /\ calls' = Append(calls, Call("fstab append", 0))
    /\ Return
    /\ UNCHANGED <<active, file, desired, check_mode, observed, changed, locals, result, prev>>

\* make_persistent
MakePersistent ==
    /\ pc = "make_persistent"
    /\ changes' = Append(changes, "make_persistent")
    /\ IF check_mode
       THEN UNCHANGED <<fstab, calls>>
       ELSE /\ fstab' = fstab \o FstabRecord(path)
            /\ calls' = Append(calls, Call("fstab append", 0))
    /\ Return
    /\ UNCHANGED <<active, file, desired, check_mode, observed, changed, locals, result, prev>>

\* make_temporary: read /etc/fstab
MakeTemporary ==
    /\ pc = "make_temporary"
    /\ changes' = Append(changes, "make_temporary")
    /\ IF check_mode
       THEN /\ Return
            /\ UNCHANGED lines
       ELSE /\ lines' = readlines(fstab)
            /\ pc' = "L185"
            /\ UNCHANGED stack
    /\ UNCHANGED <<host, desired, check_mode, observed, changed, cmd_create,
                   cmd_create_fallback, calls, result, prev>>

\* MakeTemporaryWrite that reads /etc/fstab again when it writes
MakeTemporaryWrite_Reread ==
    /\ pc = "L185"
    /\ fstab' = writelines(KeepLines(readlines(fstab), path))
    /\ calls' = Append(calls, Call("fstab write", 0))
    /\ lines' = <<>>
    /\ Return
    /\ UNCHANGED <<active, file, desired, check_mode, observed, changes, changed, cmd_create,
                   cmd_create_fallback, result, prev>>

\* make_temporary: write /etc/fstab without the lines that contain path
MakeTemporaryWrite ==
    /\ pc = "L185"
    /\ fstab' = writelines(KeepLines(lines, path))
    /\ calls' = Append(calls, Call("fstab write", 0))
    /\ lines' = <<>>
    /\ Return
    /\ UNCHANGED <<active, file, desired, check_mode, observed, changes, changed, cmd_create,
                   cmd_create_fallback, result, prev>>

Next ==
    \/ Start
    \/ Observe
    \/ Run
    \/ RunAfterCreate
    \/ RunPersistence
    \/ RunRemove
    \/ RunReturn
    \/ CreateSwap
    \/ Allocate
    \/ AllocateFallback
    \/ Mkswap
    \/ Swapon
    \/ RemoveSwap
    \/ Rm
    \/ ResizeSwap
    \/ ResizeCreate
    \/ MakePersistent
    \/ MakeTemporary
    \/ MakeTemporaryWrite

Spec == Init /\ [][Next]_vars

\* --------------------------------------------- a second reconciliation
\* module.params['path'] of another invocation of the module on the same host
other_path == <<"/", "t">>

\* make_persistent of the other invocation, which it calls when it saw no
\* line starting with its path; it shares /etc/fstab and nothing else
OtherMakePersistent ==
    /\ \A i \in 1..Len(readlines(fstab)) : ~StartsWith(readlines(fstab)[i], other_path)
    /\ fstab' = fstab \o FstabRecord(other_path)
    /\ UNCHANGED <<active, file, desired, check_mode, observed, changes, changed, pc, stack,
                   locals, calls, result, prev>>

\* the host at the start: the swap is on, and /etc/fstab is a text of whole
\* lines with room for the other record
InitShared ==
    /\ Init
    /\ active
    /\ file = block_size
    /\ Len(readlines(fstab)) < MaxLines
    /\ (fstab = <<>> \/ fstab[Len(fstab)] = "\n")

NextShared == Next \/ OtherMakePersistent

\* the module with no lock on /etc/fstab: the other invocation may write at
\* any moment
SpecShared == InitShared /\ [][NextShared]_vars

\* ------------------------------------------------------------------ properties
\* the entries of self.changes that name an action
ActionTags == { "create_swap", "remove_swap", "resize_swap", "make_persistent", "make_temporary" }

IsActionTag(e) == e \in ActionTags

Actions(log) == SelectSeq(log, IsActionTag)

\* the calls that change the host
MutatingCalls == { "fallocate", "dd", "mkswap", "swapon", "swapoff", "rm",
                   "fstab append", "fstab write" }

Called(c) == \E i \in 1..Len(calls) : calls[i].cmd = c

\* the invocation ended with exit_json
Succeeded == pc = "done" /\ result = "ok"

\* the invocation ended with fail_json
Failed == pc = "done" /\ result \notin { "none", "ok" }

\* the three observations of this invocation have been taken
HasObserved == pc \notin { "idle", "L86" } /\ result \notin { "swapon -s failed" } \cup SizeErrors

\* some line of /etc/fstab starts with path / contains path
SomeLineStartsWith == \E i \in 1..Len(readlines(fstab)) : StartsWith(readlines(fstab)[i], path)
SomeLineContains == \E i \in 1..Len(readlines(fstab)) : Contains(readlines(fstab)[i], path)

\* C1: after a real invocation that ended with exit_json, the next invocation
\* with the same desired state returns changed=false and logs no action.
C1_Idempotence ==
    (Succeeded /\ prev.ok /\ ~prev.check_mode)
        => (changed = FALSE /\ Actions(changes) = <<>>)

\* C2: after a real invocation with present=true that ended with exit_json,
\* the path is active, its size in MB is the desired size and a record line
\* starts with the path exactly when persistent is asked for.
C2_Convergence ==
    (Succeeded /\ ~check_mode /\ desired.present)
        => /\ active
           /\ check_actual_size = desired.size
           /\ check_actual_persistent = desired.persistent

\* C3 as stated: desired present and path not active, the actions are
\* create_swap, then make_persistent exactly when persistent is asked for.
C3_CreatePlan_Original ==
    (Succeeded /\ desired.present /\ ~actual_present)
        => Actions(changes) =
              <<"create_swap">> \o
              (IF desired.persistent THEN <<"make_persistent">> ELSE <<>>)

\* C3 amended: desired present and path not active, the actions are
\* create_swap, then make_persistent exactly when persistent is asked for and
\* no record line starting with the path was observed; no other action.
C3_CreatePlan ==
    (Succeeded /\ desired.present /\ ~actual_present)
        => Actions(changes) =
              <<"create_swap">> \o
              (IF desired.persistent /\ ~actual_persistent
               THEN <<"make_persistent">> ELSE <<>>)

C3_Witness ==
    /\ Succeeded /\ ~check_mode
    /\ desired.present /\ ~actual_present
    /\ desired.persistent /\ ~actual_persistent
    /\ Called("fstab append")

\* C4: a dd that returns non-zero is the last call of the invocation, which
\* fails with 'Create swap failed' (so neither mkswap nor swapon follows); a
\* dd that returns zero is followed by mkswap.
C4_AllocationFailure ==
    \A i \in 1..Len(calls) :
        /\ (calls[i].cmd = "dd" /\ calls[i].rc # 0)
              => (i = Len(calls) /\ pc = "done" /\ result = "Create swap failed")
        /\ (calls[i].cmd = "dd" /\ calls[i].rc = 0)
              => IF i = Len(calls) THEN pc = "L140" ELSE calls[i + 1].cmd = "mkswap"

\* C5: a step of an invocation in check mode leaves swap activation, the
\* file and /etc/fstab as they are, and the invocation makes no allocation,
\* mkswap, swapon, swapoff, rm call and no write of /etc/fstab.
C5_DryRunFrame ==
    [][check_mode' =>
          /\ UNCHANGED host
          /\ \A i \in 1..Len(calls') : calls'[i].cmd \notin MutatingCalls]_vars

C5_Witness ==
    /\ Succeeded /\ check_mode /\ changed
    /\ Actions(changes) = <<"resize_swap", "make_temporary">>

\* C6: a real invocation that ends with exit_json right after a check-mode
\* invocation with the same desired state (which left the host as it was)
\* returns the changed value the check-mode invocation returned.
C6_DryRunVerdict ==
    (Succeeded /\ ~check_mode /\ prev.ok /\ prev.check_mode)
        => changed = prev.changed

C6_Witness ==
    /\ Succeeded /\ ~check_mode /\ prev.ok /\ prev.check_mode
    /\ changed /\ Called("fstab write")

\* C7: desired present and path active, the actions are resize_swap (with
\* its remove_swap and create_swap in a real run) exactly when the observed
\* size differs, then make_persistent or make_temporary exactly when the
\* observed persistence differs; no other action.
C7_ActivePlan ==
    (Succeeded /\ desired.present /\ actual_present)
        => Actions(changes) =
              (IF actual_size # desired.size
               THEN IF check_mode THEN <<"resize_swap">>
                    ELSE <<"resize_swap", "remove_swap", "create_swap">>
               ELSE <<>>) \o
              (IF actual_persistent # desired.persistent
               THEN IF desired.persistent THEN <<"make_persistent">>
                    ELSE <<"make_temporary">>
               ELSE <<>>)

C7_Witness ==
    /\ Succeeded /\ ~check_mode /\ desired.present /\ actual_present
    /\ actual_size # desired.size /\ actual_persistent # desired.persistent
    /\ Called("swapon")

\* C8 as stated: desired absent; the actions are make_temporary (exactly when
\* a record was observed) then remove_swap when the path was active, none
\* otherwise, and once swapoff was attempted no line of /etc/fstab contains
\* the path.
C8_RemovalOrdering_Original ==
    ~desired.present =>
        /\ Succeeded =>
              Actions(changes) =
                 IF actual_present
                 THEN (IF actual_persistent THEN <<"make_temporary">> ELSE <<>>) \o
                      <<"remove_swap">>
                 ELSE <<>>
        /\ Called("swapoff") => ~SomeLineContains

\* C8 amended: as above, but once swapoff was attempted no line of
\* /etc/fstab starts with the path (a line that contains the path after its
\* first character stays when no line starts with it).
C8_RemovalOrdering ==
    ~desired.present =>
        /\ Succeeded =>
              Actions(changes) =
                 IF actual_present
                 THEN (IF actual_persistent THEN <<"make_temporary">> ELSE <<>>) \o
                      <<"remove_swap">>
                 ELSE <<>>
        /\ Called("swapoff") => ~SomeLineStartsWith

C8_Witness ==
    /\ Failed /\ result = "remove swap file failed"
    /\ ~desired.present /\ actual_persistent
    /\ Called("fstab write") /\ Called("swapoff")

\* C9: when what was observed equals the desired state, the invocation logs
\* no action, makes no call that changes the host, does not fail and keeps
\* changed=false.
C9_NoOp ==
    (/\ HasObserved
     /\ IF desired.present
        THEN /\ actual_present
             /\ actual_size = desired.size
             /\ actual_persistent = desired.persistent
        ELSE ~actual_present)
        => /\ Actions(changes) = <<>>
           /\ \A i \in 1..Len(calls) : calls[i].cmd \notin MutatingCalls
           /\ changed = FALSE
           /\ ~Failed

C9_Witness ==
    /\ Succeeded /\ ~check_mode
    /\ desired.present /\ desired.persistent
    /\ actual_present /\ actual_size = desired.size /\ actual_persistent

\* C10: a non-zero exit of mkswap, swapon, swapoff or rm is the last call
\* of the invocation, which fails; swapon is only called after a mkswap that
\* returned zero and rm after a swapoff that returned zero; no command is
\* called twice.
C10_FailFast ==
    /\ \A i \in 1..Len(calls) :
          (calls[i].cmd \in { "mkswap", "swapon", "swapoff", "rm" } /\ calls[i].rc # 0)
              => (i = Len(calls) /\ Failed)
    /\ \A j \in 1..Len(calls) :
          /\ calls[j].cmd = "swapon"
                => \E i \in 1..(j - 1) : calls[i] = Call("mkswap", 0)
          /\ calls[j].cmd = "rm"
                => \E i \in 1..(j - 1) : calls[i] = Call("swapoff", 0)
    /\ \A i, j \in 1..Len(calls) : i # j => calls[i].cmd # calls[j].cmd

C10_Witness ==
    /\ Failed /\ result = "remove swap file failed"
    /\ desired.present /\ actual_persistent # desired.persistent
    /\ Called("swapoff")

\* a call with exit code 0 is among the calls of this invocation
CalledOk(c) == \E i \in 1..Len(calls) : calls[i] = Call(c, 0)

\* C11: a failed invocation leaves every change it made: once the invocation
\* has ended no step changes the host; at the failure the path is active
\* exactly as the last successful swapon or swapoff left it (as observed when
\* there was none); after a failed rm the swap is off and the file is still
\* there with its size; and when /etc/fstab was rewritten no line contains
\* the path.
C11_NoRollback ==
    [][/\ pc = "done" => UNCHANGED host
       /\ (Failed' /\ HasObserved') =>
             /\ active' = IF CalledOk("swapon")' THEN TRUE
                          ELSE IF CalledOk("swapoff")' THEN FALSE
                          ELSE actual_present'
             /\ result' = "remove swap file failed" =>
                   (~active' /\ file' >= 0 /\ file' \div block_size = actual_size')
             /\ Called("fstab write")' => ~SomeLineContains']_vars

C11_Witness ==
    /\ Failed /\ result = "remove swap file failed"
    /\ ~desired.present /\ Called("fstab write")
    /\ ~active /\ file = block_size /\ ~SomeLineContains

\* the calls that act on the swap file
FileCommands == { "fallocate", "dd", "mkswap", "swapon", "swapoff", "rm" }

IsFileCommand(c) == c.cmd \in FileCommands

\* C12: in a real run that resizes, nothing of create_swap is called before
\* swapoff and then rm have returned zero; a run that ends with exit_json
\* called swapoff, rm, the allocation (fallocate, or dd, or a failed
\* fallocate and then dd), mkswap and swapon, each once and in this order;
\* and a run that fails after rm leaves the swap off.
C12_ResizeIsRemoveCreate ==
    (~check_mode /\ \E i \in 1..Len(changes) : changes[i] = "resize_swap") =>
        /\ \A i \in 1..Len(calls) :
              calls[i].cmd \in { "which fallocate", "fallocate", "dd", "mkswap", "swapon" }
                 => \E j, k \in 1..(i - 1) :
                       j < k /\ calls[j] = Call("swapoff", 0) /\ calls[k] = Call("rm", 0)
        /\ Succeeded =>
              SelectSeq(calls, IsFileCommand) \in
                 { <<Call("swapoff", 0), Call("rm", 0)>> \o alloc \o
                   <<Call("mkswap", 0), Call("swapon", 0)>> :
                      alloc \in { <<Call("fallocate", 0)>>, <<Call("dd", 0)>>,
                                  <<Call("fallocate", 1), Call("dd", 0)>> } }
        /\ (Failed /\ CalledOk("rm")) => ~active

C12_Witness ==
    /\ Succeeded /\ ~check_mode
    /\ Actions(changes) = <<"resize_swap", "remove_swap", "create_swap">>
    /\ calls[Len(calls)] = Call("swapon", 0)
    /\ Called("fallocate") /\ Called("dd")
    /\ file = desired.size * block_size

\* C13: right after make_persistent wrote its record some line of /etc/fstab
\* starts with the path, and right after make_temporary rewrote the file no
\* line starts with the path.
C13_RoundTrip ==
    Len(calls) > 0 =>
        /\ calls[Len(calls)].cmd = "fstab append" => check_actual_persistent
        /\ calls[Len(calls)].cmd = "fstab write" => ~check_actual_persistent

\* C14: an invocation with state=present whose size is missing or not above
\* zero ends in failure without any call.
C14_Validation ==
    (pc # "idle" /\ desired.present /\ ~(desired.supplied /\ desired.size > 0))
        => (Failed /\ calls = <<>>)

\* C15: right after create_swap ended with a swapon that returned zero, for a
\* desired size above zero, the size of the file in whole MB is the desired
\* size.
C15_SizeAfterCreate ==
    (Len(calls) > 0 /\ desired.size > 0)
        => (calls[Len(calls)] = Call("swapon", 0) => check_actual_size = desired.size)

\* C16: when the listing of active swaps exits non-zero the invocation fails
\* at once: no action is logged, changed stays false and the listing is its
\* only call.
C16_ObservationFatal ==
    (Len(calls) > 0 /\ calls[1].rc # 0)
        => (Failed /\ Len(calls) = 1 /\ changes = <<>> /\ changed = FALSE)

C16_Witness ==
    /\ Failed /\ calls = <<Call("swapon -s", 1)>>
    /\ desired.present /\ ~active /\ ~check_mode

\* C17: the listing of active swaps is the first call of an invocation and
\* is not called again, every call that changes the host comes after it, the
\* observed values do not change once run has started, and the persistence
\* decisions of run follow the observed values.
C17_SingleObservation ==
    [][/\ pc \notin { "idle", "done", "L86" } => UNCHANGED observed
       /\ \A i \in 1..Len(calls') :
             /\ i > 1 => calls'[i].cmd # "swapon -s"
             /\ calls'[i].cmd \in MutatingCalls => (i > 1 /\ calls'[1] = Call("swapon -s", 0))
       /\ pc = "L219" =>
             pc' = IF actual_persistent = desired.persistent THEN "L233"
                   ELSE IF desired.persistent THEN "make_persistent" ELSE "make_temporary"
       /\ pc = "L210" =>
             pc' = IF desired.persistent /\ ~actual_persistent THEN "make_persistent"
                   ELSE "L233"]_vars

C17_Witness ==
    /\ pc = "L219" /\ ~check_mode
    /\ calls[Len(calls)] = Call("swapon", 0)
    /\ actual_size # check_actual_size
    /\ actual_persistent # desired.persistent

\* the number of lines of a text that start with the path
RECURSIVE CountStarting(_)
CountStarting(ls) ==
    IF ls = <<>> THEN 0
    ELSE (IF StartsWith(Head(ls), path) THEN 1 ELSE 0) + CountStarting(Tail(ls))

IsMakePersistent(e) == e = "make_persistent"
IsAppend(c) == c.cmd = "fstab append"

\* C19: an invocation calls make_persistent at most once, and only when it
\* observed no line starting with the path; so no step takes /etc/fstab from
\* at most one line starting with the path to more than one.
C19_NoDuplicate ==
    [][/\ Len(SelectSeq(changes', IsMakePersistent)) <= 1
       /\ Len(SelectSeq(calls', IsAppend)) <= 1
       /\ Len(SelectSeq(changes', IsMakePersistent)) = 1 => ~actual_persistent'
       /\ (fstab' # fstab /\ CountStarting(readlines(fstab)) <= 1)
             => CountStarting(readlines(fstab')) <= 1]_vars

C19_Witness ==
    /\ Succeeded /\ Called("fstab append")
    /\ prev.ok /\ ~prev.check_mode
    /\ CountStarting(readlines(fstab)) = 1
    /\ Len(readlines(fstab)) = 3

LacksPath(l) == ~Contains(l, path)

\* the step of make_temporary that writes /etc/fstab
IsRewrite == pc = "L185" /\ pc' # "L185"

\* C18: when make_temporary writes /etc/fstab as it read it, the file
\* afterwards holds exactly the lines of before that do not contain the path
\* anywhere, unchanged and in their order.
C18_FilterFrame ==
    [][(IsRewrite /\ readlines(fstab) = lines)
          => readlines(fstab') = SelectSeq(readlines(fstab), LacksPath)]_vars

C18_Witness ==
    /\ Len(calls) > 0 /\ calls[Len(calls)].cmd = "fstab write"
    /\ actual_persistent
    /\ fstab = <<"/", "d", "\t", "/", "\n">> \o FstabRecord(other_path)

\* a line is one of the lines of a sequence
InLines(l, ls) == \E i \in 1..Len(ls) : ls[i] = l

\* C20: make_temporary writes what it read earlier: a line that came into
\* /etc/fstab between its read and its write is not in the file after the
\* write; in every other step, the write of a make_temporary that was not
\* interleaved included, a line holding the record of the other path stays
\* unless it contains the path.
C20_LostUpdate ==
    [][(IsRewrite \/ fstab' # fstab) =>
          LET old == readlines(fstab)
              new == readlines(fstab')
              interleaved == IsRewrite /\ old # lines
          IN  /\ interleaved =>
                   \A i \in 1..Len(old) : ~InLines(old[i], lines) => ~InLines(old[i], new)
              /\ ~interleaved =>
                   \A i \in 1..Len(old) :
                      (Contains(old[i], FstabRecord(other_path)) /\ ~Contains(old[i], path))
                         => InLines(old[i], new)]_vars

C20_Witness ==
    /\ pc = "L185"
    /\ Len(readlines(fstab)) = Len(lines) + 1
    /\ readlines(fstab)[Len(lines) + 1] = FstabRecord(other_path)
    /\ Len(lines) = 2
====
